---- MODULE Spec2Model ----
(***************************************************************************)
(* Model of src/app.py: the Clockify hours dashboard.  Streamlit reruns    *)
(* main() from top to bottom after every interaction (a file chosen or     *)
(* removed in the uploader, a cell edited in the budget grid, an option    *)
(* toggled in one of the three multiselects).  The state is the value of   *)
(* the widgets, which Streamlit keeps between reruns, and what the last    *)
(* rerun put on the page.                                                  *)
(*                                                                         *)
(* Values.  A raw table cell is a record [kind, v]: a string (v is the     *)
(* rank of the string in lexicographic order), a number, a missing value   *)
(* (NaN / NaT / None) or a text that is neither number nor date.  Hours    *)
(* are integers.  A quotient is kept exact as the pair of its terms.       *)
(***************************************************************************)
EXTENDS Integers, Sequences, FiniteSets, TLC

\* Rows of an uploaded table, cells of the budget grid changed by the user.
MaxRows == 2
MaxEdits == 1

VARIABLES uploaded_file, edited_budget_df, selected_months, selected_users,
          selected_projects_filter,
          outcome, messages, missing, df, budget_template, df_filtered,
          merged_df, summary, display_df, pivot_view, workbook

widgets == <<uploaded_file, edited_budget_df, selected_months, selected_users,
             selected_projects_filter>>
page == <<outcome, messages, missing, df, budget_template, df_filtered,
          merged_df, summary, display_df, pivot_view, workbook>>
vars == <<widgets, page>>

----------------------------------------------------------------------------
\* Cells

Str(v) == [kind |-> "str", v |-> v]
Num(v) == [kind |-> "num", v |-> v]
Date(y, m, d) == [kind |-> "date", v |-> y * 10000 + m * 100 + d]
Null == [kind |-> "null", v |-> 0]
Text == [kind |-> "text", v |-> 0]

isna(c) == c.kind = "null"

RECURSIVE SumSeq(_)
SumSeq(s) == IF s = <<>> THEN 0 ELSE Head(s) + SumSeq(Tail(s))

Range(s) == {s[i] : i \in 1..Len(s)}

\* sorted(...) of a set of integers, ascending
RECURSIVE sorted(_)
sorted(S) ==
    IF S = {} THEN <<>>
    ELSE LET lo == CHOOSE x \in S : \A y \in S : x <= y
         IN <<lo>> \o sorted(S \ {lo})

----------------------------------------------------------------------------
\* The uploaded files

required_columns == <<"Project", "User", "Duration (decimal)", "Start Date">>

RawRow(p, u, h, d) == [Project |-> p, User |-> u, Duration |-> h, Start_Date |-> d]

\* A sample export (projects and users 1 and 2), not in project order: plain
\* entries, one of them logged twice, a missing date, a negative, a
\* non-numeric and a missing duration, a missing project, a date that did
\* not parse.
SampleExport ==
    << RawRow(Str(2), Str(1), Num(1),  Null),
       RawRow(Str(1), Str(1), Num(2),  Date(2024, 1, 10)),
       RawRow(Str(2), Str(2), Num(-1), Date(2024, 2, 5)),
       RawRow(Str(1), Str(2), Text,    Date(2024, 2, 5)),
       RawRow(Str(1), Str(1), Num(2),  Date(2024, 1, 10)),
       RawRow(Str(2), Str(1), Null,    Date(2024, 1, 15)),
       RawRow(Null,   Str(1), Num(2),  Date(2024, 1, 10)),
       RawRow(Str(1), Str(1), Num(2),  Text) >>

\* The rows of s at the positions I, in order
RECURSIVE Pick(_, _)
Pick(s, I) ==
    IF I = {} THEN <<>>
    ELSE LET lo == CHOOSE i \in I : \A j \in I : i <= j
         IN <<s[lo]>> \o Pick(s, I \ {lo})

\* The tables uploaded: up to MaxRows rows of the sample
Tables ==
    { Pick(SampleExport, I) :
        I \in {J \in SUBSET (1..Len(SampleExport)) : Cardinality(J) <= MaxRows} }

\* Whether the 'Start Date' column of the parsed table is a datetime column:
\* not with a cell that is no date; with dates (and gaps) it is; a column
\* with no date at all comes out either way, by file type.
DatetimeDtypes(rows) ==
    IF \E i \in 1..Len(rows) : rows[i].Start_Date.kind = "text" THEN {FALSE}
    ELSE IF \E i \in 1..Len(rows) : rows[i].Start_Date.kind = "date" THEN {TRUE}
    ELSE {TRUE, FALSE}

File(ext, cols, rows, dt) ==
    [ext |-> ext, columns |-> cols, rows |-> rows, datetimelike |-> dt]

Extensions == {"csv", "xlsx"}

\* Files with the four columns carry a table; of a file that lacks a column
\* only the columns are ever read.
Files ==
    UNION { {File(e, Range(required_columns), t, dt) : dt \in DatetimeDtypes(t)} :
                e \in Extensions, t \in Tables }
    \cup { File(e, cols, <<>>, FALSE) :
                e \in Extensions,
                cols \in (SUBSET Range(required_columns)) \ {Range(required_columns)} }

----------------------------------------------------------------------------
\* load_data, validate_columns, process_data

\* None (the empty sequence) when the read raises: read_csv is told to parse
\* 'Start Date' as dates and raises when the file has no such column.
load_data(file) ==
    IF file.ext = "csv" /\ "Start Date" \notin file.columns
    THEN <<>>
    ELSE <<[columns |-> file.columns, rows |-> file.rows,
            datetimelike |-> file.datetimelike]>>

missing_columns(df_raw) ==
    SelectSeq(required_columns, LAMBDA col : col \notin df_raw.columns)

\* Fault variant: the check of the columns lets every table through
validate_columns_always(df_raw) == TRUE

validate_columns(df_raw) == missing_columns(df_raw) = <<>>

\* pd.to_numeric(errors='coerce'): what is no number becomes NaN
to_numeric(c) == IF c.kind = "num" THEN c ELSE Null

fillna(c, value) == IF isna(c) THEN Num(value) ELSE c

\* .dt.to_period('M').astype(str): 'YYYY-MM', and the string 'NaT' for a
\* missing date
to_period_str(c) ==
    IF isna(c) THEN "NaT"
    ELSE LET y == c.v \div 10000
             m == (c.v \div 100) % 100
         IN ToString(y) \o "-" \o (IF m < 10 THEN "0" ELSE "") \o ToString(m)

\* .dt on a column that is not datetimelike raises AttributeError
process_data_raises(df_raw) == ~df_raw.datetimelike

process_data(df_raw) ==
    LET kept == SelectSeq(df_raw.rows, LAMBDA r : ~isna(r.Project))
    IN [i \in 1..Len(kept) |->
           [Project    |-> kept[i].Project.v,
            User       |-> kept[i].User.v,
            Duration   |-> fillna(to_numeric(kept[i].Duration), 0).v,
            Month_Year |-> to_period_str(kept[i].Start_Date)]]

----------------------------------------------------------------------------
\* main: budget grid, filters, aggregation

\* Default of every row of the budget grid
DefaultHours == 100

\* Fault variant: df['Project'].unique() without sorted(): order of first appearance
RECURSIVE unique_unsorted(_)
unique_unsorted(d) ==
    IF d = <<>> THEN <<>>
    ELSE LET rest == unique_unsorted(SelectSeq(Tail(d),
                         LAMBDA r : r.Project # Head(d).Project))
         IN <<Head(d).Project>> \o rest

unique_projects(d) == sorted({d[i].Project : i \in 1..Len(d)})

budget_template_of(d) ==
    LET ps == unique_projects(d)
    IN [i \in 1..Len(ps) |->
           [Project |-> ps[i], Horas_Contratadas |-> Num(DefaultHours)]]

all_months(d) == {d[i].Month_Year : i \in 1..Len(d)}

all_users(d) == {d[i].User : i \in 1..Len(d)}

\* Fault variant: an entry without a date passes the month filter whatever is selected
matches_missing_date(r, months, users, projects) ==
    /\ (r.Month_Year \in months \/ r.Month_Year = "NaT")
    /\ r.User \in users
    /\ r.Project \in projects

\* The boolean mask of lines 137-141
matches(r, months, users, projects) ==
    /\ r.Month_Year \in months
    /\ r.User \in users
    /\ r.Project \in projects

filter(d, months, users, projects) ==
    SelectSeq(d, LAMBDA r : matches(r, months, users, projects))

\* groupby('Project')['Duration (decimal)'].sum(): one row per project of
\* the filtered entries, keys ascending
hours_of(d, p) ==
    SumSeq([i \in 1..Len(d) |-> IF d[i].Project = p THEN d[i].Duration ELSE 0])

grouped_df_of(d) ==
    LET ps == unique_projects(d)
    IN [i \in 1..Len(ps) |->
           [Project |-> ps[i], Horas_Consumidas |-> hours_of(d, ps[i])]]

\* Fault variant: how='inner', as the comment of line 155 has it: a row of the grid
\* without a group is dropped
merge_inner(budget, grouped) ==
    LET hits == SelectSeq(budget, LAMBDA b :
                    \E j \in 1..Len(grouped) : grouped[j].Project = b.Project)
    IN [i \in 1..Len(hits) |->
           [Project |-> hits[i].Project,
            Horas_Contratadas |-> hits[i].Horas_Contratadas,
            Horas_Consumidas |->
                Num(grouped[CHOOSE j \in 1..Len(grouped) :
                        grouped[j].Project = hits[i].Project].Horas_Consumidas)]]

\* pd.merge(edited_budget_df, grouped_df, on='Project', how='left'): the
\* rows of the grid in their order, each with the hours of the group of the
\* same name, NaN when there is none; then .fillna(0)
merge_left(budget, grouped) ==
    [i \in 1..Len(budget) |->
        LET hit == {j \in 1..Len(grouped) : grouped[j].Project = budget[i].Project}
        IN [Project |-> budget[i].Project,
            Horas_Contratadas |-> budget[i].Horas_Contratadas,
            Horas_Consumidas |->
                IF hit = {} THEN Null
                ELSE Num(grouped[CHOOSE j \in hit : TRUE].Horas_Consumidas)]]

fillna_rows(rows) ==
    [i \in 1..Len(rows) |->
        [Project |-> rows[i].Project,
         Horas_Contratadas |-> fillna(rows[i].Horas_Contratadas, 0).v,
         Horas_Consumidas |-> fillna(rows[i].Horas_Consumidas, 0).v]]

\* Float division of two columns: x / 0 raises nothing, it is nan for
\* x = 0, inf for x > 0, -inf for x < 0.  A finite quotient is kept as the
\* pair of its terms.
Finite(n, d) == [kind |-> "finite", num |-> n, den |-> d]
NaN == [kind |-> "nan", num |-> 0, den |-> 0]
Inf == [kind |-> "inf", num |-> 0, den |-> 0]
NegInf == [kind |-> "-inf", num |-> 0, den |-> 0]

float_div(x, y) ==
    IF y # 0 THEN Finite(x, y)
    ELSE IF x = 0 THEN NaN
    ELSE IF x > 0 THEN Inf
    ELSE NegInf

times(q, k) == IF q.kind = "finite" THEN Finite(q.num * k, q.den) ELSE q

\* Fault variant: the remaining hours clamped at 0
horas_restantes_clamped(contratadas, consumidas) ==
    IF contratadas - consumidas < 0 THEN 0 ELSE contratadas - consumidas

horas_restantes(contratadas, consumidas) == contratadas - consumidas

\* Fault variant: 0 % for a project without contracted hours
pct_consumido_guarded(contratadas, consumidas) ==
    IF contratadas = 0 THEN Finite(0, 1)
    ELSE Finite(consumidas * 100, contratadas)

pct_consumido(contratadas, consumidas) ==
    times(float_div(consumidas, contratadas), 100)

estado(restantes) == IF restantes < 0 THEN "Excedido" ELSE "En Presupuesto"

with_kpis(rows) ==
    [i \in 1..Len(rows) |->
        LET r == rows[i]
            rest == horas_restantes(r.Horas_Contratadas, r.Horas_Consumidas)
        IN [Project |-> r.Project,
            Horas_Contratadas |-> r.Horas_Contratadas,
            Horas_Consumidas |-> r.Horas_Consumidas,
            Horas_Restantes |-> rest,
            Pct_Consumido |-> pct_consumido(r.Horas_Contratadas, r.Horas_Consumidas),
            Estado |-> estado(rest)]]

merged_df_of(budget, filtered) ==
    with_kpis(fillna_rows(merge_left(budget, grouped_df_of(filtered))))

\* merged_df[merged_df['Project'].isin(selected_projects_filter)]
display_rows(merged, projects) ==
    SelectSeq(merged, LAMBDA r : r.Project \in projects)

\* Fault variant: the quotient without the cap of min(..., 1.0)
progreso_uncapped(consumed, budget) == Finite(consumed, budget)

\* min(total_consumed / total_budget, 1.0), total_budget > 0
progreso(consumed, budget) ==
    IF consumed > budget THEN Finite(1, 1) ELSE Finite(consumed, budget)

\* st.progress takes a float of 0.0 .. 1.0 and raises on any other
progress_raises(q) == q.num * q.den < 0

\* Lines 170-190.  progreso_total is assigned (and the bar drawn) only when
\* total_budget > 0: zero or one value.
summary_of(merged, projects) ==
    LET shown == display_rows(merged, projects)
        total_budget == SumSeq([i \in 1..Len(shown) |-> shown[i].Horas_Contratadas])
        total_consumed == SumSeq([i \in 1..Len(shown) |-> shown[i].Horas_Consumidas])
    IN [total_budget |-> total_budget,
        total_consumed |-> total_consumed,
        total_remaining |-> total_budget - total_consumed,
        progreso_total |->
            IF total_budget > 0 THEN <<progreso(total_consumed, total_budget)>>
            ELSE <<>>]

\* pivot_table(index='Project', columns='User', aggfunc='sum', fill_value=0,
\* margins=True): a cell per project and user of the filtered entries, and
\* the totals
cell_hours(d, p, u) ==
    SumSeq([i \in 1..Len(d) |->
               IF d[i].Project = p /\ d[i].User = u THEN d[i].Duration ELSE 0])

pivot_view_of(d) ==
    [cells |-> [k \in {d[i].Project : i \in 1..Len(d)} \X all_users(d) |->
                    cell_hours(d, k[1], k[2])],
     by_project |-> [p \in {d[i].Project : i \in 1..Len(d)} |-> hours_of(d, p)],
     by_user |-> [u \in all_users(d) |->
                    SumSeq([i \in 1..Len(d) |->
                               IF d[i].User = u THEN d[i].Duration ELSE 0])],
     total |-> SumSeq([i \in 1..Len(d) |-> d[i].Duration])]

----------------------------------------------------------------------------
\* One run of main()

\* Fault variant: the guard of line 143 never stops the run
empty_never(rows) == FALSE

\* df_filtered.empty
empty(rows) == rows = <<>>

\* What a run leaves on the page; a run that ends early leaves the rest
\* unset.
Blank ==
    [outcome |-> "NoFile", messages |-> {}, missing |-> <<>>, df |-> <<>>,
     budget_template |-> <<>>, df_filtered |-> <<>>, merged_df |-> <<>>,
     summary |-> <<>>, display_df |-> <<>>, pivot_view |-> <<>>,
     workbook |-> <<>>]

\* Lines 143-319, with the table and the widgets' values at hand
report(d, eb, sm, su, sp) ==
    LET base == [Blank EXCEPT !.df = d, !.budget_template = budget_template_of(d)]
        filtered == filter(d, sm, su, sp)
        merged == merged_df_of(eb, filtered)
        kpis == summary_of(merged, sp)
        shown == display_rows(merged, sp)
        pivot == pivot_view_of(filtered)
    IN IF empty(filtered)
       THEN [base EXCEPT !.outcome = "EmptyResult", !.messages = {"warning_no_data"}]
       ELSE IF kpis.progreso_total # <<>> /\ progress_raises(kpis.progreso_total[1])
       THEN [base EXCEPT !.outcome = "ProgressError", !.messages = {"exception"},
                         !.df_filtered = filtered, !.merged_df = merged,
                         !.summary = <<kpis>>]
       ELSE [base EXCEPT !.outcome = "Report",
                         !.df_filtered = filtered, !.merged_df = merged,
                         !.summary = <<kpis>>, !.display_df = shown,
                         !.pivot_view = <<pivot>>,
                         !.workbook = <<[Resumen_Proyectos |-> shown,
                                         Detalle_Usuarios |-> pivot,
                                         Data_Cruda_Filtrada |-> filtered]>>]

\* fo: the uploader's value, no file (<<>>) or one.  eb, sm, su, sp: what
\* the budget grid and the three multiselects return in this run.
main(fo, eb, sm, su, sp) ==
    IF fo = <<>>
    THEN [Blank EXCEPT !.outcome = "NoFile", !.messages = {"write_upload_prompt"}]
    ELSE LET df_raw == load_data(fo[1])
         IN IF df_raw = <<>>
            THEN [Blank EXCEPT !.outcome = "LoadError",
                               !.messages = {"error_read", "info_waiting"}]
            ELSE IF ~validate_columns(df_raw[1])
            THEN [Blank EXCEPT !.outcome = "SchemaError",
                               !.messages = {"error_columns", "info_waiting"},
                               !.missing = missing_columns(df_raw[1])]
            ELSE IF process_data_raises(df_raw[1])
            THEN [Blank EXCEPT !.outcome = "ProcessError", !.messages = {"exception"}]
            ELSE report(process_data(df_raw[1]), eb, sm, su, sp)

\* Whether a run with this file reaches the widgets of lines 103-134
renders_widgets(fo) ==
    /\ fo # <<>>
    /\ load_data(fo[1]) # <<>>
    /\ validate_columns(load_data(fo[1])[1])
    /\ ~process_data_raises(load_data(fo[1])[1])

Show(r) ==
    /\ outcome' = r.outcome
    /\ messages' = r.messages
    /\ missing' = r.missing
    /\ df' = r.df
    /\ budget_template' = r.budget_template
    /\ df_filtered' = r.df_filtered
    /\ merged_df' = r.merged_df
    /\ summary' = r.summary
    /\ display_df' = r.display_df
    /\ pivot_view' = r.pivot_view
    /\ workbook' = r.workbook

Rerun(fo, eb, sm, su, sp) ==
    /\ uploaded_file' = fo
    /\ edited_budget_df' = eb
    /\ selected_months' = sm
    /\ selected_users' = su
    /\ selected_projects_filter' = sp
    /\ Show(main(fo, eb, sm, su, sp))

----------------------------------------------------------------------------
\* The interactions

\* Names a project cell of the grid may be given; 3 is in no file
ProjectNames == 1..3

\* Values a 'Horas Contratadas' cell may be given (min_value=0, step=1), or
\* emptied
HoursCells == {Num(0), Num(1), Num(DefaultHours), Null}

EditedCells(eb, tpl) ==
    Cardinality({i \in 1..Len(eb) : eb[i].Project # tpl[i].Project})
    + Cardinality({i \in 1..Len(eb) :
                      eb[i].Horas_Contratadas # tpl[i].Horas_Contratadas})

Init ==
    /\ uploaded_file = <<>>
    /\ edited_budget_df = <<>>
    /\ selected_months = {}
    /\ selected_users = {}
    /\ selected_projects_filter = {}
    /\ outcome = "NoFile"
    /\ messages = {"write_upload_prompt"}
    /\ missing = <<>>
    /\ df = <<>>
    /\ budget_template = <<>>
    /\ df_filtered = <<>>
    /\ merged_df = <<>>
    /\ summary = <<>>
    /\ display_df = <<>>
    /\ pivot_view = <<>>
    /\ workbook = <<>>

\* A file is put in the empty uploader (a file chosen over a loaded one
\* leaves the state this leaves after RemoveFile).  The widgets below it are
\* new ones (their identity is their options and data): they return their
\* defaults, the grid as built and every option selected.
Upload(f) ==
    /\ uploaded_file = <<>>
    /\ IF renders_widgets(<<f>>)
       THEN LET d == process_data(load_data(f)[1])
            IN Rerun(<<f>>, budget_template_of(d), all_months(d), all_users(d),
                     Range(unique_projects(d)))
       ELSE Rerun(<<f>>, <<>>, {}, {}, {})

\* The file is removed from the uploader
RemoveFile ==
    /\ uploaded_file # <<>>
    /\ Rerun(<<>>, <<>>, {}, {}, {})

\* st.data_editor is given no `disabled` and the default num_rows: every
\* cell of both columns can be edited, rows are neither added nor deleted.
EditBudgetHours(i, c) ==
    /\ renders_widgets(uploaded_file)
    /\ LET eb == [edited_budget_df EXCEPT ![i].Horas_Contratadas = c]
       IN /\ EditedCells(eb, budget_template) <= MaxEdits
          /\ Rerun(uploaded_file, eb, selected_months, selected_users,
                   selected_projects_filter)

EditBudgetProject(i, p) ==
    /\ renders_widgets(uploaded_file)
    /\ LET eb == [edited_budget_df EXCEPT ![i].Project = p]
       IN /\ EditedCells(eb, budget_template) <= MaxEdits
          /\ Rerun(uploaded_file, eb, selected_months, selected_users,
                   selected_projects_filter)

Toggle(S, x) == IF x \in S THEN S \ {x} ELSE S \cup {x}

SelectMonth(m) ==
    /\ renders_widgets(uploaded_file)
    /\ Rerun(uploaded_file, edited_budget_df, Toggle(selected_months, m),
             selected_users, selected_projects_filter)

SelectUser(u) ==
    /\ renders_widgets(uploaded_file)
    /\ Rerun(uploaded_file, edited_budget_df, selected_months,
             Toggle(selected_users, u), selected_projects_filter)

SelectProject(p) ==
    /\ renders_widgets(uploaded_file)
    /\ Rerun(uploaded_file, edited_budget_df, selected_months, selected_users,
             Toggle(selected_projects_filter, p))

Next ==
    \/ \E f \in Files : Upload(f)
    \/ RemoveFile
    \/ \E i \in 1..Len(edited_budget_df), c \in HoursCells : EditBudgetHours(i, c)
    \/ \E i \in 1..Len(edited_budget_df), p \in ProjectNames : EditBudgetProject(i, p)
    \/ \E m \in all_months(df) : SelectMonth(m)
    \/ \E u \in all_users(df) : SelectUser(u)
    \/ \E p \in Range(unique_projects(df)) : SelectProject(p)

Spec == Init /\ [][Next]_vars

----------------------------------------------------------------------------
\* Properties

\* The run reached the widgets (grid and filters are on the page)
Rendered == outcome \in {"EmptyResult", "ProgressError", "Report"}

Selected(r) ==
    /\ r.Project \in selected_projects_filter
    /\ r.User \in selected_users

Consumed(rows) == SumSeq([i \in 1..Len(rows) |-> rows[i].Horas_Consumidas])

Contracted(rows) == SumSeq([i \in 1..Len(rows) |-> rows[i].Horas_Contratadas])

Durations(rows) == SumSeq([i \in 1..Len(rows) |-> rows[i].Duration])

\* The entries of df that satisfy the three selections
Matching ==
    SelectSeq(df, LAMBDA r : Selected(r) /\ r.Month_Year \in selected_months)

\* The value of a grid cell as the report reads it (None counts 0)
GridHours(i) ==
    IF edited_budget_df[i].Horas_Contratadas.kind = "null" THEN 0
    ELSE edited_budget_df[i].Horas_Contratadas.v

NoEntryFor(p) == \A i \in 1..Len(df_filtered) : df_filtered[i].Project # p

\* C1: in a run that emits the report, the 'Horas Consumidas' of its rows add
\* up to the durations of exactly the entries that match the selections.
C1_ConsumedIsMatchingHours ==
    outcome = "Report" => Consumed(display_df) = Durations(Matching)

\* C2 as stated: an entry is kept iff its project and user are selected and
\* its month is selected or absent; an entry without a start date is kept
\* whatever months are selected.
C2_MissingDateAlwaysKept ==
    Rendered =>
        df_filtered = SelectSeq(df, LAMBDA r :
            Selected(r) /\ (r.Month_Year \in selected_months \/ r.Month_Year = "NaT"))

\* C2 amended: an entry is kept iff its project, its user and its month key
\* are selected, where an entry without a start date has the key 'NaT', an
\* option of the month filter like any other: it is kept iff 'NaT' is
\* selected (and its project and user are).
C2_KeptIffAllSelected ==
    Rendered =>
        /\ df_filtered = SelectSeq(df, LAMBDA r :
               Selected(r) /\ r.Month_Year \in selected_months)
        /\ \A i \in 1..Len(df) :
               (df[i].Month_Year = "NaT" /\ Selected(df[i]))
                   => ((df[i] \in Range(df_filtered)) <=> ("NaT" \in selected_months))

\* An entry without a start date, its project and user selected, is dropped
\* because 'NaT' is deselected, while another entry is kept.
C2_Witness ==
    /\ outcome = "Report"
    /\ "NaT" \notin selected_months
    /\ \E i \in 1..Len(df) :
           /\ df[i].Month_Year = "NaT"
           /\ Selected(df[i])
           /\ df[i] \notin Range(df_filtered)

\* C3 as stated: every row of the budget grid whose project has no matching
\* entry is in the emitted report, with 0 consumed, the contracted hours
\* remaining and the status 'En Presupuesto' (taken with the grid's project
\* column as built, so that each row is a project of the entries).
C3_NoKnownProjectDropped ==
    (/\ outcome = "Report"
     /\ \A i \in 1..Len(edited_budget_df) :
            edited_budget_df[i].Project = budget_template[i].Project) =>
        \A i \in 1..Len(edited_budget_df) :
            NoEntryFor(edited_budget_df[i].Project) =>
                \E k \in 1..Len(display_df) :
                    /\ display_df[k].Project = edited_budget_df[i].Project
                    /\ display_df[k].Horas_Contratadas = GridHours(i)
                    /\ display_df[k].Horas_Consumidas = 0
                    /\ display_df[k].Horas_Restantes = GridHours(i)
                    /\ display_df[k].Estado = "En Presupuesto"

ZeroRow(i) ==
    [Project |-> edited_budget_df[i].Project,
     Horas_Contratadas |-> GridHours(i),
     Horas_Consumidas |-> 0,
     Horas_Restantes |-> GridHours(i),
     Pct_Consumido |-> IF GridHours(i) = 0 THEN NaN ELSE Finite(0, GridHours(i)),
     Estado |-> "En Presupuesto"]

\* C3 amended: every row of the budget grid whose project has no matching
\* entry is in merged_df with 0 consumed, the contracted hours remaining and
\* the status 'En Presupuesto'; it is in the emitted report iff its project
\* is selected in the project filter.
C3_SelectedProjectKept ==
    outcome = "Report" =>
        \A i \in 1..Len(edited_budget_df) :
            NoEntryFor(edited_budget_df[i].Project) =>
                /\ Len(merged_df) = Len(edited_budget_df)
                /\ merged_df[i] = ZeroRow(i)
                /\ (ZeroRow(i) \in Range(display_df))
                       <=> (edited_budget_df[i].Project \in selected_projects_filter)

\* The report shows a selected project without a matching entry, beside a
\* project with entries.
C3_Witness ==
    /\ outcome = "Report"
    /\ \E i \in 1..Len(edited_budget_df) :
           /\ NoEntryFor(edited_budget_df[i].Project)
           /\ edited_budget_df[i].Project \in selected_projects_filter
           /\ ZeroRow(i) \in Range(display_df)
           /\ \E j \in 1..Len(df) : df[j].Project = edited_budget_df[i].Project

\* The rows of the grid whose project is selected, by position
ShownGrid ==
    SelectSeq([i \in 1..Len(edited_budget_df) |-> i],
              LAMBDA i : edited_budget_df[i].Project \in selected_projects_filter)

\* C4: every row of the report is a row of the budget grid as edited, and
\* its 'Horas Restantes' is its contracted hours minus its consumed hours,
\* negative when more is consumed than contracted.
C4_RemainingIsContractedMinusConsumed ==
    outcome = "Report" =>
        /\ Len(display_df) = Len(ShownGrid)
        /\ \A k \in 1..Len(display_df) :
               /\ display_df[k].Project = edited_budget_df[ShownGrid[k]].Project
               /\ display_df[k].Horas_Contratadas = GridHours(ShownGrid[k])
               /\ display_df[k].Horas_Restantes =
                      display_df[k].Horas_Contratadas - display_df[k].Horas_Consumidas

\* A row over its edited budget: remaining hours below 0.
C4_Witness ==
    /\ outcome = "Report"
    /\ \E k \in 1..Len(display_df) :
           /\ display_df[k].Horas_Contratadas # DefaultHours
           /\ display_df[k].Horas_Consumidas > display_df[k].Horas_Contratadas
           /\ display_df[k].Horas_Restantes < 0

\* q = min(consumed / budget, 1), budget > 0
IsCappedQuotient(q, consumed, budget) ==
    /\ q.kind = "finite"
    /\ q.den > 0
    /\ IF consumed > budget THEN q.num = q.den
       ELSE q.num * budget = consumed * q.den

TotalsOfReport(t) ==
    /\ t.total_budget = Contracted(display_df)
    /\ t.total_consumed = Consumed(display_df)
    /\ t.total_remaining = t.total_budget - t.total_consumed

\* C5 as stated: the totals are those of the report's rows, and the global
\* progress is min(consumed / budget, 1) with a positive budget and 0 without.
C5_ProgressZeroWithoutBudget ==
    outcome = "Report" =>
        /\ Len(summary) = 1
        /\ TotalsOfReport(summary[1])
        /\ Len(summary[1].progreso_total) = 1
        /\ IF summary[1].total_budget > 0
           THEN IsCappedQuotient(summary[1].progreso_total[1],
                                 summary[1].total_consumed, summary[1].total_budget)
           ELSE summary[1].progreso_total[1].num = 0

\* C5 amended: the totals are those of the report's rows; with a positive
\* total budget the global progress is min(consumed / budget, 1) and lies
\* between 0 and 1; with a total budget of 0 no progress value is computed
\* (no bar is drawn).
C5_ProgressOnlyWithBudget ==
    outcome = "Report" =>
        /\ Len(summary) = 1
        /\ TotalsOfReport(summary[1])
        /\ IF summary[1].total_budget > 0
           THEN /\ Len(summary[1].progreso_total) = 1
                /\ IsCappedQuotient(summary[1].progreso_total[1],
                                    summary[1].total_consumed, summary[1].total_budget)
                /\ 0 <= summary[1].progreso_total[1].num
                /\ summary[1].progreso_total[1].num <= summary[1].progreso_total[1].den
           ELSE summary[1].progreso_total = <<>>

\* A report with hours consumed and a total budget of 0: no progress value.
C5_Witness ==
    /\ outcome = "Report"
    /\ summary[1].total_budget = 0
    /\ summary[1].total_consumed > 0
    /\ summary[1].progreso_total = <<>>

\* C6 as stated: with 0 contracted hours the percentage is one value, the
\* same whatever was consumed; with contracted hours it is consumed /
\* contracted * 100.
C6_OneSentinel ==
    outcome = "Report" =>
        \A k \in 1..Len(display_df) :
            IF display_df[k].Horas_Contratadas = 0
            THEN display_df[k].Pct_Consumido = pct_consumido(0, 0)
            ELSE display_df[k].Pct_Consumido =
                     Finite(display_df[k].Horas_Consumidas * 100,
                            display_df[k].Horas_Contratadas)

\* C6 amended: with 0 contracted hours the percentage is the quotient of the
\* float division by zero, which depends on the consumed hours: nan for 0,
\* inf for more, -inf for less; no fault is raised and the run goes on (the
\* one fault after the filter is a negative progress value with a positive
\* budget).  With contracted hours it is consumed / contracted * 100.
C6_ZeroBudgetPercent ==
    /\ outcome = "Report" =>
           \A k \in 1..Len(display_df) :
               LET r == display_df[k]
               IN IF r.Horas_Contratadas = 0
                  THEN r.Pct_Consumido =
                           IF r.Horas_Consumidas = 0 THEN NaN
                           ELSE IF r.Horas_Consumidas > 0 THEN Inf ELSE NegInf
                  ELSE r.Pct_Consumido =
                           Finite(r.Horas_Consumidas * 100, r.Horas_Contratadas)
    /\ outcome = "ProgressError" =>
           summary[1].total_budget > 0 /\ summary[1].total_consumed < 0

\* A report with a row of 0 contracted hours and hours consumed: inf.
C6_Witness ==
    /\ outcome = "Report"
    /\ \E k \in 1..Len(display_df) :
           /\ display_df[k].Horas_Contratadas = 0
           /\ display_df[k].Horas_Consumidas > 0
           /\ display_df[k].Pct_Consumido = Inf

NothingAggregated ==
    /\ df_filtered = <<>>
    /\ merged_df = <<>>
    /\ summary = <<>>
    /\ display_df = <<>>
    /\ pivot_view = <<>>
    /\ workbook = <<>>

\* C7: when no entry matches the selections the run shows the warning of the
\* empty result and nothing else: no aggregate, report, totals, pivot or
\* workbook; the warning is shown in no other case, and neither the schema
\* error nor the prompt for a file is shown with it.
C7_EmptyResultStops ==
    /\ (Rendered /\ Matching = <<>>) =>
           /\ outcome = "EmptyResult"
           /\ messages = {"warning_no_data"}
           /\ NothingAggregated
    /\ outcome = "EmptyResult" => (Rendered /\ Matching = <<>>)
    /\ outcome \in {"NoFile", "LoadError", "SchemaError"} =>
           "warning_no_data" \notin messages

\* Entries are loaded and the selections leave none of them.
C7_Witness ==
    /\ outcome = "EmptyResult"
    /\ df # <<>>
    /\ messages = {"warning_no_data"}

NothingProcessed ==
    /\ df = <<>>
    /\ budget_template = <<>>
    /\ edited_budget_df = <<>>
    /\ NothingAggregated

\* C8: when the table read from the file lacks a required column, the run
\* shows the error with exactly the required columns that are missing and
\* does nothing more: no entries, budget grid, filter, aggregate or report.
C8_MissingColumnsStop ==
    (/\ uploaded_file # <<>>
     /\ ~(uploaded_file[1].ext = "csv" /\ "Start Date" \notin uploaded_file[1].columns)
     /\ \E c \in Range(required_columns) : c \notin uploaded_file[1].columns)
    => /\ outcome = "SchemaError"
       /\ "error_columns" \in messages
       /\ Range(missing) = Range(required_columns) \ uploaded_file[1].columns
       /\ Len(missing) = Cardinality(Range(missing))
       /\ NothingProcessed

\* A table without two of the required columns.
C8_Witness ==
    /\ outcome = "SchemaError"
    /\ Len(missing) >= 2
    /\ "Project" \in Range(missing)

C10_DurationNonNegative ==
    \A i \in 1..Len(df) : df[i].Duration >= 0
====
